---- MODULE Spec2Model ----
(***************************************************************************)
(* Model of Scripts/sim_search.py: the pairwise similarity search          *)
(* (sim_search, jaccard_like) and the neighbour-overlap evaluation         *)
(* (eval_overlap).                                                         *)
(*                                                                         *)
(* A feature matrix is a function over 0-based index ranges, as in the     *)
(* source. Similarity vectors, the reconstructed square matrices and the   *)
(* arrays derived from them are sequences: element x of the source array   *)
(* is element x + 1 of the sequence.                                       *)
(* numpy arrays are reference objects: `mem` maps addresses to matrices,   *)
(* the caller's matrix lives at ArrayAddr and `fp` holds the address of    *)
(* the working copy.                                                       *)
(* A similarity value x is held as the integer x * Scale, Scale being the  *)
(* least common multiple of the possible denominators 1..NumCols.          *)
(***************************************************************************)
EXTENDS Integers, Sequences, FiniteSets, TLC

\* ---------------------------------------------------------------- bounds
MaxM == 3          \* most rows (entities) of a feature matrix
MaxStack == 2      \* most similarity vectors stacked for eval_overlap
MaxTopK == 2       \* largest top_1 of a direct call of eval_overlap
MaxFlat == 2       \* most leading entries of a vector tied with the first

\* ------------------------------------------------------------- utilities
Min(a, b) == IF a < b THEN a ELSE b

RECURSIVE Gcd(_, _)
Gcd(a, b) == IF b = 0 THEN a ELSE Gcd(b, a % b)

RECURSIVE LcmUpTo(_)
LcmUpTo(n) == IF n <= 1 THEN 1
              ELSE LET l == LcmUpTo(n - 1) IN (l * n) \div Gcd(l, n)


RECURSIVE SumOver(_, _, _)
\* f(lo) + f(lo+1) + ... + f(hi-1), summed by halves
SumOver(f(_), lo, hi) ==
  IF lo >= hi THEN 0
  ELSE IF hi = lo + 1 THEN f(lo)
  ELSE LET mid == (lo + hi) \div 2 IN SumOver(f, lo, mid) + SumOver(f, mid, hi)

\* the sequence <<f(lo), f(lo+1), ..., f(hi-1)>>
TupleOf(f(_), lo, hi) == [x \in 1 .. hi - lo |-> f(lo + x - 1)] \o <<>>

\* ------------------------------------------------------------ the inputs
\* fingerprints (rows of a feature matrix): empty, binary and count-valued
RowPool == {<<0, 0, 0>>, <<1, 0, 1>>, <<0, 1, 0>>, <<2, 0, 1>>}
Rows == {[c \in 0 .. Len(r) - 1 |-> r[c + 1]] : r \in RowPool}
NumCols == Cardinality(DOMAIN (CHOOSE r \in Rows : TRUE))
Scale == LcmUpTo(NumCols)
Matrices == UNION {[0 .. m - 1 -> Rows] : m \in 0 .. MaxM}
MetricNames == {"default", "alternate", "tanimto"}
\* force_binary as passed by the caller: the booleans, and a truthy non-bool
ForceValues == {"True", "False", "1"}

ArrayAddr == 0

VARIABLES
  pc,            \* where the caller stands
  mem,           \* address -> matrix
  sim_metric,    \* argument of sim_search
  force_binary,  \* argument of sim_search
  fp,            \* sim_search: address of the working copy
  metric,        \* sim_search: the selected metric function
  n_samples,     \* sim_search
  n_comps,       \* sim_search
  similarity,    \* sim_search: the preallocated vector
  count,         \* sim_search: the write counter
  i, j,          \* sim_search: the loop variables (next pair to evaluate)
  writes,        \* history: per slot, the number of writes made to it
  array0,        \* history: the caller's matrix as it was at the call
  err,           \* the exception raised, or "none"
  stack,         \* the caller's stack of returned vectors
  calls,         \* history: per stacked vector, the metric and rows it used
  n_compounds,   \* eval_overlap argument
  square_matrix, \* eval_overlap
  top_1,         \* eval_overlap
  sort_indices,  \* eval_overlap: per entity and member, the columns kept
  output         \* eval_overlap: per pair of members, <<numerator, denominator>>

simVars == <<mem, sim_metric, force_binary, fp, metric, n_samples, n_comps,
             similarity, count, i, j, writes, array0>>
ovVars == <<n_compounds, square_matrix, top_1, sort_indices, output>>
vars == <<pc, simVars, err, stack, calls, ovVars>>

\* ---------------------------------------------------------- sim_search
\* array.copy(): the address the copy is placed at
AliasAddr(src) == src
CopyAddr(src) == src + 1

\* line 36: fp[fp > 1] = 1
Clamp(m) == [r \in DOMAIN m |-> [c \in DOMAIN m[r] |-> IF m[r][c] > 1 THEN 1 ELSE m[r][c]]]

\* `force_binary is True`
IsTrue(v) == v = "True"

\* scipy.spatial.distance.jaccard(u, v), times Scale:
\*   nonzero = (u != 0) | (v != 0); unequal_nonzero = (u != v) & nonzero
\*   unequal_nonzero.sum() / nonzero.sum() if nonzero.sum() != 0 else 0
jaccard(u, v) ==
  LET nonzero == {c \in DOMAIN u : u[c] # 0 \/ v[c] # 0}
      unequal_nonzero == {c \in nonzero : u[c] # v[c]}
      a == Cardinality(unequal_nonzero)
      b == Cardinality(nonzero)
  IN IF b # 0 THEN (a * Scale) \div b ELSE 0

\* 1 - count_nonzero(a == b) / len(a), times Scale
jaccard_like(a, b) ==
  LET eq == {c \in DOMAIN a : a[c] = b[c]}
      len == Cardinality(DOMAIN a)
  IN Scale - (Cardinality(eq) * Scale) \div len

ApplyMetric(m, u, v) == IF m = "jaccard" THEN jaccard(u, v) ELSE jaccard_like(u, v)

\* lines 32-38: the metric selected for a name
SelectMetric(name) == IF name = "default" THEN "jaccard" ELSE "jaccard_like"

\* lines 34-36: whether the working copy is clamped
ClampAlways(name, force) == IsTrue(force)
ClampApplies(name, force) == name = "default" /\ IsTrue(force)

\* line 42: int((n_samples ** 2 - n_samples) / 2)
NCompsSquare(n) == (n * n) \div 2
NComps(n) == (n * n - n) \div 2

\* line 50: range(i+1, n_samples) starts at
InnerStart(a) == a + 1

\* lines 29-46: the call up to the loops
SimSearchCall ==
  /\ pc = "caller"
  /\ Len(stack) < MaxStack
  /\ \E name \in MetricNames, force \in ForceValues :
       LET a == CopyAddr(ArrayAddr)
           copied == [x \in DOMAIN mem \cup {a} |-> mem[ArrayAddr]]
           clamped == IF ClampApplies(name, force)
                        THEN [copied EXCEPT ![a] = Clamp(copied[a])]
                        ELSE copied
           n == Cardinality(DOMAIN clamped[a])
       IN /\ sim_metric' = name
          /\ force_binary' = force
          /\ array0' = mem[ArrayAddr]
          /\ fp' = a
          /\ mem' = clamped
          /\ metric' = SelectMetric(name)
          /\ n_samples' = n
          /\ n_comps' = NComps(n)
          /\ similarity' = [x \in 1 .. NComps(n) |-> 0]
          /\ writes' = [x \in 1 .. NComps(n) |-> 0]
          /\ count' = 0
          /\ i' = 0
          /\ j' = InnerStart(0)
  /\ pc' = "sim_loop"
  /\ UNCHANGED <<err, stack, calls, ovVars>>

\* lines 49-54: one pass through the body of the inner loop
SimSearchStep ==
  /\ pc = "sim_loop"
  /\ i < n_samples - 1
  /\ j < n_samples
  /\ IF count + 1 \in DOMAIN similarity
       THEN /\ similarity' = [similarity EXCEPT
                 ![count + 1] = Scale - ApplyMetric(metric, mem[fp][i], mem[fp][j])]
            /\ writes' = [writes EXCEPT ![count + 1] = @ + 1]
            /\ count' = count + 1
            /\ IF j + 1 < n_samples
                 THEN /\ j' = j + 1
                      /\ i' = i
                 ELSE /\ i' = i + 1
                      /\ j' = InnerStart(i + 1)
            /\ UNCHANGED <<pc, err>>
       ELSE /\ err' = "IndexError"
            /\ pc' = "raised"
            /\ UNCHANGED <<similarity, writes, count, i, j>>
  /\ UNCHANGED <<mem, sim_metric, force_binary, fp, metric, n_samples, n_comps,
                 array0, stack, calls, ovVars>>

\* line 56, and the caller stacking the returned vector
SimSearchReturn ==
  /\ pc = "sim_loop"
  /\ ~(i < n_samples - 1 /\ j < n_samples)
  /\ pc' = "caller"
  /\ stack' = Append(stack, similarity)
  /\ calls' = Append(calls, [metric |-> metric, rows |-> mem[fp]])
  /\ mem' = [x \in {ArrayAddr} |-> mem[x]]
  /\ UNCHANGED <<sim_metric, force_binary, fp, metric, n_samples, n_comps,
                 similarity, count, i, j, writes, array0, err, ovVars>>

\* -------------------------------------------------------- eval_overlap
\* line 107: len(range(i + 1, n_compounds)), the passes of the inner loop
\* that advance `count` (InnerCountOne: advanced once per outer pass)
InnerCountOne(n, a) == 1
InnerCount(n, a) == IF n - (a + 1) > 0 THEN n - (a + 1) ELSE 0

RECURSIVE RowStarts(_, _, _, _)
\* lines 105-110: the values of `count` on entry to the passes lo..hi-1 of
\* the outer loop, `start` being the value on entry to pass lo; each pass
\* adds the passes of its inner loop. (Built by halves.)
RowStarts(n, lo, hi, start) ==
  IF lo >= hi THEN <<>>
  ELSE IF hi = lo + 1 THEN <<start>>
  ELSE LET mid == (lo + hi) \div 2
           passes(x) == InnerCount(n, x)
       IN RowStarts(n, lo, mid, start)
            \o RowStarts(n, mid, hi, start + SumOver(passes, lo, mid))

\* `count` after the loops of lines 105-110 (the outer loop is range(n - 1))
PairsRead(n) == LET passes(x) == InnerCount(n, x) IN SumOver(passes, 0, n - 1)

\* line 109: square_matrix[j,i,k] = square_matrix[i,j,k]
NoMirror(v) == 0
Mirror(v) == v

\* lines 102-110: square_matrix[i,j,k] is Reconstruct[i+1][j+1][k+1]; sm is
\* the stack and rs the values of `count` on entry to the outer passes
Reconstruct(sm, n, rs) ==
  LET at(k, a, b) == sm[k + 1][rs[a + 1] + (b - (a + 1)) + 1]
      cell(a, b) == LET member(k) == IF a < b THEN at(k, a, b)
                                     ELSE IF b < a THEN Mirror(at(k, b, a))
                                     ELSE 0
                    IN TupleOf(member, 0, Len(sm))
      row(a) == LET col(b) == cell(a, b) IN TupleOf(col, 0, n)
  IN TupleOf(row, 0, n)

\* line 112: int(n_compounds * 0.01); the double nearest 0.01 lies above
\* 1/100, and the product's rounding neither falls below a multiple of 100
\* nor reaches the next integer, so the result is the integer quotient
PercentDen == 100
TopOne(n) == n \div PercentDen

\* line 113: the length of the slice [-top_1:] of an axis of length n
\* (KeepOneMore: the slice [-top_1 - 1:])
KeepOneMore(n, t) == Min(t + 1, n)
KeepLen(n, t) == IF t = 0 THEN n ELSE Min(t, n)

\* (BottomGroup: the smallest value, as the slice [:top_1] would keep)
BottomGroup(val, n, sure) ==
  LET rest == (0 .. n - 1) \ sure
      pos == {val[c] : c \in rest}
  IN UNION {{c \in rest : val[c] = m} :
              m \in {CHOOSE x \in pos : \A v \in pos : x <= v}}

\* the columns outside `sure` that hold the largest value of val among them
TopGroup(val, n, sure) ==
  LET rest == (0 .. n - 1) \ sure
      neg == {0 - val[c] : c \in rest}
  IN UNION {{c \in rest : val[c] = 0 - m} :
              m \in {CHOOSE x \in neg : \A v \in neg : x <= v}}

RECURSIVE TailPick(_, _, _, _)
\* The last `need` places of an ascending argsort of val (columns 0..n-1):
\* the columns every ascending order puts there (sure), and the group of
\* equal values from which the remaining `need` places are filled in an
\* order the sort leaves open (ties).
TailPick(val, n, sure, need) ==
  IF need = 0 THEN [sure |-> sure, ties |-> {}, need |-> 0]
  ELSE CHOOSE r \in
         {IF Cardinality(grp) <= need
            THEN TailPick(val, n, sure \cup grp, need - Cardinality(grp))
            ELSE [sure |-> sure, ties |-> grp, need |-> need] :
          grp \in {TopGroup(val, n, sure)}} : TRUE

\* line 113: np.argsort(square_matrix, axis=1)[:, -top_1:, :] for entity k
\* and stack member s
ArgsortTail(sq, n, t, k, s) ==
  TailPick([c \in 0 .. n - 1 |-> sq[k + 1][c + 1][s + 1]], n, {}, KeepLen(n, t))

RECURSIVE Choices(_, _)
\* every way to fill the open places of the entities/members in `open`
Choices(open, picks) ==
  IF open = {} THEN {<<>>}
  ELSE LET t == CHOOSE x \in open : TRUE
           p == picks[t[1] + 1][t[2] + 1]
       IN {f @@ (t :> X) : f \in Choices(open \ {t}, picks),
                           X \in {Y \in SUBSET p.ties : Cardinality(Y) = p.need}}

\* line 122: intersect / top_1
Divisor(t) == t

\* lines 118-123: output[s1][s2] = <<numerator, denominator>> of
\* np.mean(overlap); the mean of an empty list is nan, held as <<0, 0>>
Overlap(si, n, t, s1, s2) ==
  LET inter(k) == Cardinality(si[k + 1][s1 + 1] \cap si[k + 1][s2 + 1])
  IN <<SumOver(inter, 0, n), t * n>>

\* lines 97-110: eval_overlap(sm, n) up to the reconstructed matrices
EvalReconstruct(sm, n) ==
  /\ n_compounds' = n
  /\ IF \E k \in 1 .. Len(sm) : PairsRead(n) > Len(sm[k])
       THEN /\ err' = "IndexError"
            /\ pc' = "raised"
            /\ UNCHANGED square_matrix
       ELSE /\ \E rs \in {RowStarts(n, 0, n, 0)} :
                 square_matrix' = Reconstruct(sm, n, rs)
            /\ pc' = "ov_sort"
            /\ UNCHANGED err
  /\ UNCHANGED <<top_1, sort_indices, output>>

\* lines 112-113
EvalArgsort ==
  /\ pc = "ov_sort"
  /\ LET n == n_compounds
         t == TopOne(n)
         members == 0 .. Len(stack) - 1
         entities == 0 .. n - 1
         row(k) == LET one(s) == ArgsortTail(square_matrix, n, t, k, s)
                   IN TupleOf(one, 0, Len(stack))
     IN \E picks \in {TupleOf(row, 0, n)} :
        \E open \in {{x \in entities \X members : picks[x[1] + 1][x[2] + 1].need > 0}} :
        \E ch \in Choices(open, picks) :
          /\ top_1' = t
          /\ sort_indices' =
               LET kept(k, s) == IF <<k, s>> \in open
                                   THEN picks[k + 1][s + 1].sure \cup ch[<<k, s>>]
                                   ELSE picks[k + 1][s + 1].sure
                   of(k) == LET m(s) == kept(k, s) IN TupleOf(m, 0, Len(stack))
               IN TupleOf(of, 0, n)
  /\ pc' = "ov_loop"
  /\ UNCHANGED <<simVars, err, stack, calls, n_compounds, square_matrix, output>>

\* lines 115-125
EvalOverlapLoop ==
  /\ pc = "ov_loop"
  /\ LET n == n_compounds
         members == 0 .. Len(stack) - 1
     IN IF members # {} /\ n > 0 /\ Divisor(top_1) = 0
          THEN /\ err' = "ZeroDivisionError"
               /\ pc' = "raised"
               /\ output' = [s1 \in 1 .. Len(stack) |-> [s2 \in 1 .. Len(stack) |-> <<0, 1>>]]
          ELSE /\ err' = err
               /\ pc' = "overlap_done"
               /\ output' = [s1 \in 1 .. Len(stack) |-> [s2 \in 1 .. Len(stack) |->
                               Overlap(sort_indices, n, Divisor(top_1), s1 - 1, s2 - 1)]]
  /\ UNCHANGED <<simVars, stack, calls, n_compounds, square_matrix, top_1, sort_indices>>

\* the caller hands the stacked vectors and the number of entities
EvalOverlapCall ==
  /\ pc = "caller"
  /\ Len(stack) >= 1
  /\ EvalReconstruct(stack, Cardinality(DOMAIN mem[ArrayAddr]))
  /\ UNCHANGED <<simVars, stack, calls>>

\* ------------------------------------------------- the specification
Init ==
  /\ pc = "caller"
  /\ \E a \in Matrices : mem = [x \in {ArrayAddr} |-> a]
  /\ sim_metric = "default"
  /\ force_binary = "True"
  /\ fp = ArrayAddr
  /\ metric = "jaccard"
  /\ n_samples = 0
  /\ n_comps = 0
  /\ similarity = <<>>
  /\ count = 0
  /\ i = 0
  /\ j = 0
  /\ writes = <<>>
  /\ array0 = mem[ArrayAddr]
  /\ err = "none"
  /\ stack = <<>>
  /\ calls = <<>>
  /\ n_compounds = 0
  /\ square_matrix = <<>>
  /\ top_1 = 0
  /\ sort_indices = <<>>
  /\ output = <<>>

Next ==
  \/ SimSearchCall
  \/ SimSearchStep
  \/ SimSearchReturn
  \/ EvalOverlapCall
  \/ EvalArgsort
  \/ EvalOverlapLoop

Spec == Init /\ [][Next]_vars

\* ---------------------------------- eval_overlap called on given vectors
\* the similarity vectors handed in, of length C:
\*   Asc      ascending, all entries distinct
\*   TailTie  ascending, the last two entries equal
\*   HeadTie  descending, the first t + 1 entries equal (t = 0: all distinct);
\*            these are the pairs (0,1) .. (0,t+1), so entity 0 has t + 1
\*            equally similar nearest neighbours
Asc(C) == LET v(c) == c IN TupleOf(v, 0, C)
TailTie(C) == LET v(c) == Min(c, C - 2) IN TupleOf(v, 0, C)
HeadTie(t, C) == LET v(c) == C - 1 - (IF c < t THEN t ELSE c) IN TupleOf(v, 0, C)
FamilySize == MaxFlat + 3
Family(a, C) == IF a = 0 THEN Asc(C)
                ELSE IF a = 1 THEN TailTie(C)
                ELSE HeadTie(a - 2, C)
StackFrom(a, S, C) == [s \in 1 .. S |-> Family((a + s - 1) % FamilySize, C)]
EntityCounts == {PercentDen * t : t \in 1 .. MaxTopK}

InitOverlap ==
  /\ pc = "overlap_call"
  /\ mem = [x \in {ArrayAddr} |-> <<>>]
  /\ sim_metric = "default"
  /\ force_binary = "True"
  /\ fp = ArrayAddr
  /\ metric = "jaccard"
  /\ n_samples = 0
  /\ n_comps = 0
  /\ similarity = <<>>
  /\ count = 0
  /\ i = 0
  /\ j = 0
  /\ writes = <<>>
  /\ array0 = <<>>
  /\ err = "none"
  /\ calls = <<>>
  /\ \E n \in EntityCounts, a \in 0 .. FamilySize - 1, S \in 1 .. MaxStack :
       /\ n_compounds = n
       /\ stack = StackFrom(a, S, (n * (n - 1)) \div 2)
  /\ square_matrix = <<>>
  /\ top_1 = 0
  /\ sort_indices = <<>>
  /\ output = <<>>

EvalOverlapDirect ==
  /\ pc = "overlap_call"
  /\ EvalReconstruct(stack, n_compounds)
  /\ UNCHANGED <<simVars, stack, calls>>

NextOverlap ==
  \/ EvalOverlapDirect
  \/ EvalArgsort
  \/ EvalOverlapLoop

SpecOverlap == InitOverlap /\ [][NextOverlap]_vars

\* ------------------------------------------------------------ properties
\* the position of the pair (a, b), a < b, in the canonical pair ordering
\* of M entities
PairIndex(a, b, M) == a * M - (a * (a + 1)) \div 2 + (b - a - 1)

\* the number of unique unordered pairs of M entities
PairCount(M) == (M * (M - 1)) \div 2

\* sim_search has returned at least once, and no call is in progress
Returned == pc # "sim_loop" /\ stack # <<>>

\* the rows of the matrix handed to the last call of sim_search
InputRows == Cardinality(DOMAIN array0)

\* C1: for every input matrix of M >= 1 rows sim_search returns a vector of
\* exactly M(M-1)/2 entries with its write counter at M(M-1)/2, every
\* preallocated slot written exactly once, and no write outside the vector
\* (which numpy would answer with an IndexError).
C1_ExactLength ==
  /\ err # "IndexError"
  /\ (pc = "sim_loop" /\ InputRows >= 1) =>
       /\ count <= Len(similarity)
       /\ \A x \in 1 .. Len(writes) : writes[x] = (IF x <= count THEN 1 ELSE 0)
  /\ (Returned /\ InputRows >= 1) =>
       /\ Len(similarity) = PairCount(InputRows)
       /\ Len(stack[Len(stack)]) = PairCount(InputRows)
       /\ count = PairCount(InputRows)
       /\ \A x \in 1 .. Len(writes) : writes[x] = 1

C1_Witness ==
  /\ Returned
  /\ InputRows >= 3
  /\ count >= 3
  /\ Len(similarity) = count

\* the value sim_search computes for the rows a and b in the call that
\* produced the stack member s
PairValue(s, a, b) ==
  Scale - ApplyMetric(calls[s].metric, calls[s].rows[a], calls[s].rows[b])

\* C2: sim_search stores the similarity of the rows a < b at the canonical
\* position of (a, b), and eval_overlap reads the pair (a, b) of every stack
\* member from that position: square_matrix[a, b] holds the value sim_search
\* computed for the rows a and b.
C2_CanonicalOrder ==
  /\ pc = "sim_loop" =>
       \A a \in 0 .. n_samples - 1 : \A b \in a + 1 .. n_samples - 1 :
         PairIndex(a, b, n_samples) < count =>
           similarity[PairIndex(a, b, n_samples) + 1]
             = Scale - ApplyMetric(metric, mem[fp][a], mem[fp][b])
  /\ \A s \in 1 .. Len(stack) :
       LET M == Cardinality(DOMAIN calls[s].rows)
       IN \A a \in 0 .. M - 1 : \A b \in a + 1 .. M - 1 :
            /\ stack[s][PairIndex(a, b, M) + 1] = PairValue(s, a, b)
            /\ pc \in {"ov_sort", "ov_loop", "overlap_done", "raised"} =>
                 square_matrix[a + 1][b + 1][s] = PairValue(s, a, b)

C2_Witness ==
  /\ pc = "ov_sort"
  /\ Len(stack) = 2
  /\ n_compounds = 3
  /\ square_matrix[1][2][1] # square_matrix[1][3][1]
  /\ square_matrix[1][3][1] # square_matrix[2][3][1]
  /\ square_matrix[1][2][2] # square_matrix[1][2][1]

\* C3: sim_search never mutates the caller's matrix: during and after the
\* call it is element for element what it was when the call was made;
\* clamping touches the working copy alone.
C3_ArrayUntouched == mem[ArrayAddr] = array0

C3_Witness ==
  /\ Returned
  /\ sim_metric = "default"
  /\ IsTrue(force_binary)
  /\ calls[Len(calls)].rows # mem[ArrayAddr]
  /\ \E r \in DOMAIN array0 : \E c \in DOMAIN array0[r] : array0[r][c] > 1

RECURSIVE FlattenUpper(_, _, _, _, _)
\* the strict upper triangle of member s of sq, rows lo..hi-1, flattened in
\* the canonical pair ordering
FlattenUpper(sq, s, n, lo, hi) ==
  IF lo >= hi THEN <<>>
  ELSE IF hi = lo + 1
    THEN LET entry(b) == sq[lo + 1][b + 1][s] IN TupleOf(entry, lo + 1, n)
  ELSE LET mid == (lo + hi) \div 2
       IN FlattenUpper(sq, s, n, lo, mid) \o FlattenUpper(sq, s, n, mid, hi)

\* C4: round trip: the square matrix eval_overlap reconstructs from a vector,
\* re-flattened in the canonical pair ordering, is the vector again; the
\* matrix is symmetric and its diagonal is 0.
C4_RoundTrip ==
  pc = "ov_sort" =>
    \A s \in 1 .. Len(stack) :
      /\ FlattenUpper(square_matrix, s, n_compounds, 0, n_compounds) = stack[s]
      /\ \A a \in 1 .. n_compounds :
           /\ square_matrix[a][a][s] = 0
           /\ \A b \in 1 .. n_compounds :
                square_matrix[a][b][s] = square_matrix[b][a][s]

C4_Witness ==
  /\ pc = "ov_sort"
  /\ n_compounds >= PercentDen
  /\ Len(stack) >= 2
  /\ Len(stack[1]) = PairCount(n_compounds)
  /\ stack[1] # stack[2]

\* C5: with top_k = floor(M * 0.01) >= 1 every diagonal entry (s, s) of the
\* matrix eval_overlap returns is 1.0.
C5_DiagonalOne ==
  (pc = "overlap_done" /\ n_compounds \div 100 >= 1) =>
    \A s \in 1 .. Len(stack) :
      /\ output[s][s][2] > 0
      /\ output[s][s][1] = output[s][s][2]

C5_Witness ==
  /\ pc = "overlap_done"
  /\ top_1 >= 1
  /\ Len(stack) >= 2
  /\ output[1][1][1] = output[1][1][2]
  /\ output[1][2][1] # output[1][2][2]

\* C6: with fewer than 100 entities (top_k = 0) eval_overlap ends with a
\* defined zero-valued result: it raises no error and works on empty
\* neighbour sets.
C6_DefinedZeroResult ==
  (pc \in {"overlap_done", "raised"} /\ n_compounds \div 100 = 0) =>
    /\ pc = "overlap_done"
    /\ err = "none"
    /\ \A k \in 1 .. Len(sort_indices) : \A s \in 1 .. Len(stack) :
         sort_indices[k][s] = {}
    /\ \A s1 \in 1 .. Len(stack) : \A s2 \in 1 .. Len(stack) :
         output[s1][s2][1] = 0 /\ output[s1][s2][2] # 0

\* the two metric modes that are defined
DefinedMetrics == {"default", "alternate"}

\* C7: sim_search called with a metric name that is neither defined mode
\* fails with UnsupportedMetric and computes no similarity vector.
C7_UnsupportedMetric ==
  sim_metric \notin DefinedMetrics => (pc = "raised" /\ err = "UnsupportedMetric")

\* C8: sim_search called with a matrix of zero rows fails with EmptyInput
\* instead of returning a vector.
C8_EmptyInput ==
  ((pc = "sim_loop" \/ stack # <<>>) /\ InputRows = 0) =>
    (pc = "raised" /\ err = "EmptyInput")

\* C9: with top_k >= 1, the neighbour set of every entity under every stack
\* member is top_k distinct columns of the entity's row of the reconstructed
\* matrix, no column outside it is more similar than a column inside it,
\* and the returned entry (s1, s2) is the mean over the M entities of
\* |neighbours(s1) \cap neighbours(s2)| / top_k.
C9_TopNeighbours ==
  (pc = "overlap_done" /\ n_compounds \div 100 >= 1) =>
    LET n == n_compounds
        k == n \div 100
        row(e, s, c) == square_matrix[e][c + 1][s]
        shared(s1, s2) == LET both(e) == Cardinality(sort_indices[e + 1][s1]
                                                      \cap sort_indices[e + 1][s2])
                          IN SumOver(both, 0, n)
    IN /\ \A s \in 1 .. Len(stack) : \A e \in 1 .. n :
            /\ sort_indices[e][s] \subseteq 0 .. n - 1
            /\ Cardinality(sort_indices[e][s]) = k
            /\ \A c \in (0 .. n - 1) \ sort_indices[e][s] :
                 \A d \in sort_indices[e][s] : row(e, s, c) <= row(e, s, d)
       /\ \A s1 \in 1 .. Len(stack) : \A s2 \in 1 .. Len(stack) :
            /\ output[s1][s2][2] > 0
            /\ output[s1][s2][1] * (k * n) = shared(s1, s2) * output[s1][s2][2]

C9_Witness ==
  /\ pc = "overlap_done"
  /\ top_1 = 2
  /\ Len(stack) = 2
  /\ \E e \in 1 .. n_compounds :
       Cardinality(sort_indices[e][1] \cap sort_indices[e][2]) = 1
  /\ output[1][2][1] > 0
  /\ output[1][2][1] < output[1][2][2]

\* the vector of the last call holds, pair by pair, the metric's value on
\* the rows of m
VectorOn(m) ==
  \A a \in 0 .. InputRows - 1 : \A b \in a + 1 .. InputRows - 1 :
    similarity[PairIndex(a, b, InputRows) + 1]
      = Scale - ApplyMetric(SelectMetric(sim_metric), m[a], m[b])

\* C10 as stated: whenever force_binary is set, whichever metric is selected,
\* the returned vector is the one sim_search yields on the already binarised
\* matrix with the same metric.
C10_ClampAnyMetric ==
  (Returned /\ IsTrue(force_binary)) => VectorOn(Clamp(array0))

\* C10 as amended: the working copy is clamped exactly when sim_metric is
\* "default" and force_binary is True, and the returned vector then is the
\* one sim_search yields on the already binarised matrix; in every other
\* call the pairs are evaluated on the values as handed in.
C10_ClampDefaultOnly ==
  Returned =>
    IF sim_metric = "default" /\ IsTrue(force_binary)
      THEN VectorOn(Clamp(array0))
      ELSE VectorOn(array0)

C10_Witness ==
  /\ Returned
  /\ sim_metric = "default"
  /\ IsTrue(force_binary)
  /\ InputRows >= 2
  /\ ~VectorOn(array0)

====
